---- MODULE Spec2Model ----
(***************************************************************************)
(* Model of diffusion_maps/diffusion_maps.py: the DiffusionMaps            *)
(* constructor (a five-stage pipeline), make_stochastic_matrix and         *)
(* downsample.                                                             *)
(*                                                                         *)
(* Numbers.  Points are one-dimensional with integer coordinates, so a     *)
(* pairwise distance is an exact integer.  Kernel values are floating      *)
(* point numbers in the source; here they are fixed-point numbers with     *)
(* Scale units per 1.0, every operation rounding to the nearest unit.      *)
(* The fixed-point numbers keep the behaviours of the floats that matter:  *)
(* rounding error, underflow of exp to 0, 0/0 = NaN and x/0 = Inf.         *)
(* Arrays are functions on 0..n-1, as the source indexes them.             *)
(***************************************************************************)
EXTENDS Integers, Sequences, FiniteSets, TLC

\* ---------------------------------------------------------------- bounds
MaxN == 3
MaxCoord == 4
MaxEps == 2
MaxCutOff == 4
MaxK == 3
MaxRows == 2
MaxData == 3

\* ------------------------------------------------------- numeric encoding
\* fixed-point units per 1.0
Scale == 1000
\* non-finite results of a floating point division
NaN == -1
Inf == -2
\* the Python value None of an optional argument
None == -1

Abs(x) == IF x < 0 THEN -x ELSE x

ZeroBased(seq) == [i \in 0..(Len(seq) - 1) |-> seq[i + 1]]

Size(arr) == Cardinality(DOMAIN arr)

IsFiniteVal(x) == x >= 0

\* numpy true division of two fixed-point values
TrueDiv(x, y) ==
    IF x = NaN \/ y = NaN THEN NaN
    ELSE IF y = 0 THEN (IF x = 0 THEN NaN ELSE Inf)
    ELSE IF x = Inf THEN Inf
    ELSE (2 * x * Scale + y) \div (2 * y)

\* np.sum(data[a:b])
RECURSIVE np_sum(_, _, _)
np_sum(data, a, b) ==
    IF a >= b THEN 0
    ELSE LET rest == np_sum(data, a + 1, b)
         IN  IF data[a] = NaN \/ rest = NaN THEN NaN
             ELSE IF data[a] = Inf \/ rest = Inf THEN Inf
             ELSE data[a] + rest

\* Scale * exp(p/q) by its power series, each term rounded down; the sum
\* stops once 1/exp(p/q) is below half a unit
RECURSIVE ExpSeries(_, _, _, _, _)
ExpSeries(p, q, n, term, acc) ==
    IF term = 0 \/ acc > 2 * Scale * Scale THEN acc
    ELSE ExpSeries(p, q, n + 1, (term * p) \div (q * (n + 1)), acc + term)

\* np.exp(-p/q) in fixed point; underflows to 0 for large p/q
np_exp_neg(p, q) ==
    LET e == ExpSeries(p, q, 0, Scale, 0)
    IN  (2 * Scale * Scale + e) \div (2 * e)

\* ------------------------------------------------------- sparse matrices
EmptyArr == << >>

NoMatrix == [shape |-> 0, indptr |-> (0 :> 0), indices |-> EmptyArr, data |-> EmptyArr]

NoCoo == [shape |-> 0, row |-> EmptyArr, col |-> EmptyArr, data |-> EmptyArr]

\* the positions p of the stored entries of row i of a CSR matrix
RowSlots(m, i) == m.indptr[i]..(m.indptr[i + 1] - 1)

\* the stored (row, column) positions of a CSR matrix
Pattern(m) ==
    UNION {{<<i, m.indices[p]>> : p \in RowSlots(m, i)} : i \in 0..(m.shape - 1)}

\* ------------------------------------------------ collaborators of a build
\* scipy cKDTree.sparse_distance_matrix(tree, r, output_type='coo_matrix'):
\* every pair (i, j) with distance <= r, once, with its distance; the pairs
\* are listed row by row
sparse_distance_matrix(pts, r) ==
    LET n     == Size(pts)
        cells == [k \in 1..(n * n) |-> k - 1]
        near(k) == Abs(pts[k \div n] - pts[k % n]) <= r
        kept  == ZeroBased(SelectSeq(cells, near))
    IN  [shape |-> n,
         row   |-> [e \in DOMAIN kept |-> kept[e] \div n],
         col   |-> [e \in DOMAIN kept |-> kept[e] % n],
         data  |-> [e \in DOMAIN kept |-> Abs(pts[kept[e] \div n] - pts[kept[e] % n])]]

\* utils.coo_tocsr: the entries grouped by row, in their order of appearance;
\* explicit zeros are kept
RECURSIVE RowEntries(_, _)
RowEntries(coo, i) ==
    IF i < 0 THEN << >>
    ELSE RowEntries(coo, i - 1) \o
         SelectSeq([e \in 1..Size(coo.data) |-> e - 1], LAMBDA e : coo.row[e] = i)

coo_tocsr(coo) ==
    LET order == ZeroBased(RowEntries(coo, coo.shape - 1))
    IN  [shape   |-> coo.shape,
         indptr  |-> [i \in 0..coo.shape |->
                        Cardinality({e \in DOMAIN coo.data : coo.row[e] < i})],
         indices |-> [p \in DOMAIN order |-> coo.col[order[p]]],
         data    |-> [p \in DOMAIN order |-> coo.data[order[p]]]]

\* the eigensolver modules: k pairs in descending order, or a failure
eigensolver(matrix, k, converges) ==
    IF k > matrix.shape THEN [error |-> "ConfigurationError", ew |-> << >>, ev |-> << >>]
    ELSE IF ~converges THEN [error |-> "NumericalFault", ew |-> << >>, ev |-> << >>]
    ELSE [error |-> "none",
          ew |-> [r \in 1..k |-> r],
          ev |-> [r \in 1..k |-> matrix.shape]]

\* ------------------------------------------------------------ the program
\* a default cut-off equal to the bandwidth
get_cut_off_bandwidth(eps) == eps

\* DiffusionMaps.__get_cut_off
get_cut_off(eps) == 2 * eps

\* DiffusionMaps.kernel_function: exp(-d^2 / (2 epsilon)), element-wise
kernel_function(distances, eps) ==
    [p \in DOMAIN distances |-> np_exp_neg(distances[p] * distances[p], 2 * eps)]

\* a CSR matrix without its stored zeros (scipy eliminate_zeros)
eliminate_zeros(m) ==
    LET slots == SelectSeq([k \in 1..Size(m.data) |-> k - 1], LAMBDA q : m.data[q] # 0)
        kept  == ZeroBased(slots)
    IN  [shape   |-> m.shape,
         indptr  |-> [i \in 0..m.shape |->
                        Cardinality({q \in DOMAIN m.data : q < m.indptr[i] /\ m.data[q] # 0})],
         indices |-> [q \in DOMAIN kept |-> m.indices[kept[q]]],
         data    |-> [q \in DOMAIN kept |-> m.data[kept[q]]]]

\* a kernel matrix rebuilt from its values, which prunes the zeros
compute_kernel_matrix_pruned(distance_matrix, eps) ==
    eliminate_zeros([distance_matrix EXCEPT
                        !.data = [p \in DOMAIN distance_matrix.data |->
                                    np_exp_neg(distance_matrix.data[p] * distance_matrix.data[p],
                                               2 * eps)]])

\* DiffusionMaps._compute_kernel_matrix
compute_kernel_matrix(distance_matrix, eps) ==
    LET data             == distance_matrix.data
        transformed_data == kernel_function(data, eps)
    IN  [distance_matrix EXCEPT !.data = transformed_data]

\* make_stochastic_matrix: rows i, i+1, ..., n-1 of the loop
RECURSIVE normalize_rows(_, _, _, _)
normalize_rows(data, indptr, i, n) ==
    IF i >= n THEN data
    ELSE LET a     == indptr[i]
             b     == indptr[i + 1]
             norm1 == np_sum(data, a, b)
         IN  normalize_rows([p \in DOMAIN data |->
                                IF a <= p /\ p < b THEN TrueDiv(data[p], norm1)
                                ELSE data[p]],
                            indptr, i + 1, n)

\* the loop with the row sum taken over data[a:b-1]
RECURSIVE normalize_rows_short(_, _, _, _)
normalize_rows_short(data, indptr, i, n) ==
    IF i >= n THEN data
    ELSE LET a     == indptr[i]
             b     == indptr[i + 1]
             norm1 == np_sum(data, a, b - 1)
         IN  normalize_rows_short([p \in DOMAIN data |->
                                      IF a <= p /\ p < b THEN TrueDiv(data[p], norm1)
                                      ELSE data[p]],
                                  indptr, i + 1, n)

make_stochastic_matrix_short(matrix) ==
    [matrix EXCEPT !.data = normalize_rows_short(matrix.data, matrix.indptr, 0, matrix.shape)]

make_stochastic_matrix(matrix) ==
    [matrix EXCEPT !.data = normalize_rows(matrix.data, matrix.indptr, 0, matrix.shape)]

\* sorted(...) of a sequence of integers
RECURSIVE Insert(_, _)
Insert(x, sorted_seq) ==
    IF sorted_seq = << >> THEN <<x>>
    ELSE IF x <= Head(sorted_seq) THEN <<x>> \o sorted_seq
    ELSE <<Head(sorted_seq)>> \o Insert(x, Tail(sorted_seq))

RECURSIVE sorted(_)
sorted(seq) == IF seq = << >> THEN << >> ELSE Insert(Head(seq), sorted(Tail(seq)))

\* the possible results of np.random.choice(range(n), k, replace=False):
\* k distinct elements of 0..n-1 in any order
random_choice(n, k) ==
    {c \in [1..k -> 0..(n - 1)] : \A i, j \in 1..k : i # j => c[i] # c[j]}

\* the draw used as it comes, without sorted(...)
downsample_indices_unsorted(choice) == choice

\* downsample, lines 49-51, for one draw
downsample_indices(choice) == sorted(choice)

\* data[indices, :]
take(data, indices) == [i \in 0..(Len(indices) - 1) |-> data[indices[i + 1]]]

\* ------------------------------------------------------------------ state
VARIABLES
    pc,               \* position of the running call
    points,           \* argument points
    epsilon,          \* argument epsilon, then self.epsilon
    cut_off,          \* argument cut_off (None when not supplied)
    num_eigenpairs,   \* argument num_eigenpairs
    normalize_kernel, \* argument normalize_kernel
    use_cuda,         \* argument use_cuda
    self_cut_off,     \* self._cut_off
    distance_coo,     \* distance_matrix as returned by the radius query
    distance_matrix,  \* distance_matrix after the conversion to CSR
    kernel_matrix,    \* self.kernel_matrix
    eigenvalues,      \* self.eigenvalues
    eigenvectors,     \* self.eigenvectors
    error,            \* the exception that left the call, if any
    stages,           \* the timed blocks entered so far, in order
    solver_calls,     \* the eigensolver invocations made so far
    nm_matrix,        \* make_stochastic_matrix: its argument, updated in place
    nm_input,         \* make_stochastic_matrix: the argument as it was passed
    ds_data,          \* downsample: argument data
    ds_num_samples,   \* downsample: argument num_samples
    ds_choice,        \* downsample: the draw of np.random.choice
    ds_indices,       \* downsample: indices
    ds_result         \* downsample: the returned array

build_vars == <<points, epsilon, cut_off, num_eigenpairs, normalize_kernel, use_cuda,
                self_cut_off, distance_coo, distance_matrix, kernel_matrix,
                eigenvalues, eigenvectors, error, stages, solver_calls>>

nm_vars == <<nm_matrix, nm_input>>

ds_vars == <<ds_data, ds_num_samples, ds_choice, ds_indices, ds_result>>

vars == <<pc, build_vars, nm_vars, ds_vars>>

NoError == [kind |-> "none", stage |-> "none"]

\* the point sets of at most MaxN points on the line.  The constructor treats
\* the points alike whatever their order, so each collection of coordinates
\* is listed once, in non-decreasing order.
PointSets ==
    UNION {{p \in [0..(n - 1) -> 0..MaxCoord] : \A i \in 0..(n - 2) : p[i] <= p[i + 1]} :
           n \in 0..MaxN}

BuildIdle ==
    /\ points = EmptyArr
    /\ epsilon = 1
    /\ cut_off = None
    /\ num_eigenpairs = 1
    /\ normalize_kernel = TRUE
    /\ use_cuda = FALSE
    /\ self_cut_off = None
    /\ distance_coo = NoCoo
    /\ distance_matrix = NoMatrix
    /\ kernel_matrix = NoMatrix
    /\ eigenvalues = << >>
    /\ eigenvectors = << >>
    /\ error = NoError
    /\ stages = << >>
    /\ solver_calls = << >>

NmIdle ==
    /\ nm_matrix = NoMatrix
    /\ nm_input = NoMatrix

DsIdle ==
    /\ ds_data = EmptyArr
    /\ ds_num_samples = 0
    /\ ds_choice = << >>
    /\ ds_indices = << >>
    /\ ds_result = EmptyArr

\* ------------------------------------------------- DiffusionMaps.__init__
\* a call of the constructor: epsilon > 0, cut_off > 0 or not supplied
Init ==
    /\ pc = "start"
    /\ points \in PointSets
    /\ epsilon \in 1..MaxEps
    /\ cut_off \in {None} \cup 1..MaxCutOff
    /\ num_eigenpairs \in 1..MaxK
    /\ normalize_kernel \in BOOLEAN
    /\ use_cuda \in BOOLEAN
    /\ self_cut_off = None
    /\ distance_coo = NoCoo
    /\ distance_matrix = NoMatrix
    /\ kernel_matrix = NoMatrix
    /\ eigenvalues = << >>
    /\ eigenvectors = << >>
    /\ error = NoError
    /\ stages = << >>
    /\ solver_calls = << >>
    /\ NmIdle
    /\ DsIdle

\* an exception that is recorded and swallowed
Raise_swallowed(kind, stage) ==
    /\ pc' = "done"
    /\ error' = [kind |-> kind, stage |-> stage]

\* an exception leaves the constructor: nothing catches it
Raise(kind, stage) ==
    /\ pc' = "failed"
    /\ error' = [kind |-> kind, stage |-> stage]

\* lines 129-134
SetCutOff ==
    /\ pc = "start"
    /\ self_cut_off' = IF cut_off = None THEN get_cut_off(epsilon) ELSE cut_off
    /\ pc' = "kdtree"
    /\ UNCHANGED <<points, epsilon, cut_off, num_eigenpairs, normalize_kernel, use_cuda,
                   distance_coo, distance_matrix, kernel_matrix, eigenvalues,
                   eigenvectors, error, stages, solver_calls, nm_vars, ds_vars>>

\* lines 136-140: cKDTree(points) rejects an empty point set
BuildKDTree ==
    /\ pc = "kdtree"
    /\ stages' = Append(stages, "index")
    /\ IF Size(points) = 0
       THEN Raise("InputError", "index")
       ELSE pc' = "distance" /\ error' = error
    /\ UNCHANGED <<points, epsilon, cut_off, num_eigenpairs, normalize_kernel, use_cuda,
                   self_cut_off, distance_coo, distance_matrix, kernel_matrix,
                   eigenvalues, eigenvectors, solver_calls, nm_vars, ds_vars>>

\* lines 142-152
RadiusQuery ==
    /\ pc = "distance"
    /\ stages' = Append(stages, "distance")
    /\ distance_coo' = sparse_distance_matrix(points, self_cut_off)
    /\ pc' = "csr"
    /\ UNCHANGED <<points, epsilon, cut_off, num_eigenpairs, normalize_kernel, use_cuda,
                   self_cut_off, distance_matrix, kernel_matrix, eigenvalues,
                   eigenvectors, error, solver_calls, nm_vars, ds_vars>>

\* lines 154-157
ToCSR ==
    /\ pc = "csr"
    /\ stages' = Append(stages, "csr")
    /\ distance_matrix' = coo_tocsr(distance_coo)
    /\ pc' = "kernel"
    /\ UNCHANGED <<points, epsilon, cut_off, num_eigenpairs, normalize_kernel, use_cuda,
                   self_cut_off, distance_coo, kernel_matrix, eigenvalues,
                   eigenvectors, error, solver_calls, nm_vars, ds_vars>>

\* lines 159-162
ComputeKernel ==
    /\ pc = "kernel"
    /\ stages' = Append(stages, "kernel")
    /\ kernel_matrix' = compute_kernel_matrix(distance_matrix, epsilon)
    /\ pc' = "normalize"
    /\ UNCHANGED <<points, epsilon, cut_off, num_eigenpairs, normalize_kernel, use_cuda,
                   self_cut_off, distance_coo, distance_matrix, eigenvalues,
                   eigenvectors, error, solver_calls, nm_vars, ds_vars>>

\* lines 164-167, normalize_kernel is True
Normalize ==
    /\ pc = "normalize"
    /\ normalize_kernel = TRUE
    /\ stages' = Append(stages, "normalize")
    /\ kernel_matrix' = make_stochastic_matrix(kernel_matrix)
    /\ pc' = "solve"
    /\ UNCHANGED <<points, epsilon, cut_off, num_eigenpairs, normalize_kernel, use_cuda,
                   self_cut_off, distance_coo, distance_matrix, eigenvalues,
                   eigenvectors, error, solver_calls, nm_vars, ds_vars>>

\* a normalization that runs whatever the flag says
SkipNormalize_normalizes ==
    /\ pc = "normalize"
    /\ normalize_kernel # TRUE
    /\ stages' = Append(stages, "normalize")
    /\ kernel_matrix' = make_stochastic_matrix(kernel_matrix)
    /\ pc' = "solve"
    /\ UNCHANGED <<points, epsilon, cut_off, num_eigenpairs, normalize_kernel, use_cuda,
                   self_cut_off, distance_coo, distance_matrix, eigenvalues,
                   eigenvectors, error, solver_calls, nm_vars, ds_vars>>

\* lines 164-167, normalize_kernel is not True
SkipNormalize ==
    /\ pc = "normalize"
    /\ normalize_kernel # TRUE
    /\ pc' = "solve"
    /\ UNCHANGED <<build_vars, nm_vars, ds_vars>>

\* the other backend
OtherBackend(backend) == IF backend = "gpu" THEN "cpu" ELSE "gpu"

\* a solver stage that falls back on the other backend when the selected one
\* is not available
RunBackend_fallback(backend, available, converges) ==
    LET used == IF available THEN backend ELSE OtherBackend(backend)
        r    == eigensolver(kernel_matrix, num_eigenpairs, converges)
    IN  /\ solver_calls' = Append(solver_calls,
               [backend |-> used, matrix |-> kernel_matrix, k |-> num_eigenpairs])
        /\ IF r.error # "none"
           THEN /\ pc' = "failed"
                /\ error' = [kind |-> r.error, stage |-> "solver"]
                /\ UNCHANGED <<eigenvalues, eigenvectors>>
           ELSE /\ eigenvalues' = r.ew
                /\ eigenvectors' = r.ev
                /\ pc' = "done"
                /\ error' = error

\* a solver stage that asks for at most as many pairs as there are points
RunBackend_clamped(backend, available, converges) ==
    IF ~available
    THEN /\ pc' = "failed"
         /\ error' = [kind |-> "ConfigurationError", stage |-> "solver"]
         /\ UNCHANGED <<solver_calls, eigenvalues, eigenvectors>>
    ELSE LET k == IF num_eigenpairs > kernel_matrix.shape
                  THEN kernel_matrix.shape ELSE num_eigenpairs
             r == eigensolver(kernel_matrix, k, converges)
         IN  /\ solver_calls' = Append(solver_calls,
                    [backend |-> backend, matrix |-> kernel_matrix, k |-> k])
             /\ IF r.error # "none"
                THEN /\ pc' = "failed"
                     /\ error' = [kind |-> r.error, stage |-> "solver"]
                     /\ UNCHANGED <<eigenvalues, eigenvectors>>
                ELSE /\ eigenvalues' = r.ew
                     /\ eigenvectors' = r.ev
                     /\ pc' = "done"
                     /\ error' = error

\* lines 169-180 with the backend named by the flag: the import fails when
\* the backend is not available; otherwise the solver is called once and its
\* result, if any, is stored
RunBackend(backend, available, converges) ==
    IF ~available
    THEN /\ Raise("ConfigurationError", "solver")
         /\ UNCHANGED <<solver_calls, eigenvalues, eigenvectors>>
    ELSE LET r == eigensolver(kernel_matrix, num_eigenpairs, converges)
         IN  /\ solver_calls' = Append(solver_calls,
                    [backend |-> backend, matrix |-> kernel_matrix, k |-> num_eigenpairs])
             /\ IF r.error # "none"
                THEN /\ Raise(r.error, "solver")
                     /\ UNCHANGED <<eigenvalues, eigenvectors>>
                ELSE /\ eigenvalues' = r.ew
                     /\ eigenvectors' = r.ev
                     /\ pc' = "done"
                     /\ error' = error

\* lines 170-173 and 179-180
SolveGPU ==
    /\ pc = "solve"
    /\ use_cuda = TRUE
    /\ stages' = Append(stages, "solver")
    /\ \E available \in BOOLEAN, converges \in BOOLEAN :
           RunBackend("gpu", available, converges)
    /\ UNCHANGED <<points, epsilon, cut_off, num_eigenpairs, normalize_kernel, use_cuda,
                   self_cut_off, distance_coo, distance_matrix, kernel_matrix,
                   nm_vars, ds_vars>>

\* lines 174-180
SolveCPU ==
    /\ pc = "solve"
    /\ use_cuda # TRUE
    /\ stages' = Append(stages, "solver")
    /\ \E available \in BOOLEAN, converges \in BOOLEAN :
           RunBackend("cpu", available, converges)
    /\ UNCHANGED <<points, epsilon, cut_off, num_eigenpairs, normalize_kernel, use_cuda,
                   self_cut_off, distance_coo, distance_matrix, kernel_matrix,
                   nm_vars, ds_vars>>

Next ==
    \/ SetCutOff
    \/ BuildKDTree
    \/ RadiusQuery
    \/ ToCSR
    \/ ComputeKernel
    \/ Normalize
    \/ SkipNormalize
    \/ SolveGPU
    \/ SolveCPU

Spec == Init /\ [][Next]_vars

\* ------------------------------------- make_stochastic_matrix on its own
Unstored == -1

NmValues == {0, 300, 1000}

\* the CSR matrix of an n x n table of stored values and unstored cells
FromTable(n, t) ==
    LET cells == [k \in 1..(n * n) |-> k - 1]
        kept  == ZeroBased(SelectSeq(cells, LAMBDA k : t[k] # Unstored))
    IN  coo_tocsr([shape |-> n,
                   row   |-> [e \in DOMAIN kept |-> kept[e] \div n],
                   col   |-> [e \in DOMAIN kept |-> kept[e] % n],
                   data  |-> [e \in DOMAIN kept |-> t[kept[e]]]])

\* a call of make_stochastic_matrix with any sparse non-negative matrix
InitNm ==
    /\ pc = "nm_call"
    /\ \E n \in 1..MaxRows :
          \E t \in [0..(n * n - 1) -> NmValues \cup {Unstored}] :
              nm_matrix = FromTable(n, t)
    /\ nm_input = nm_matrix
    /\ BuildIdle
    /\ DsIdle

\* lines 66-71: the loop runs over every row and the function returns
NmRun ==
    /\ pc = "nm_call"
    /\ nm_matrix' = make_stochastic_matrix(nm_matrix)
    /\ pc' = "nm_returned"
    /\ UNCHANGED <<nm_input, build_vars, ds_vars>>

NextNm == NmRun

SpecNm == InitNm /\ [][NextNm]_vars

\* ------------------------------------------------------------- downsample
DsValues == {7, 8}

DataSets == UNION {[0..(n - 1) -> DsValues] : n \in 0..MaxData}

InitDs ==
    /\ pc = "ds_call"
    /\ ds_data \in DataSets
    /\ ds_num_samples \in 0..(MaxData + 1)
    /\ ds_choice = << >>
    /\ ds_indices = << >>
    /\ ds_result = EmptyArr
    /\ BuildIdle
    /\ NmIdle

\* line 48: the assertion fails
DsAssertFails ==
    /\ pc = "ds_call"
    /\ ~(ds_num_samples <= Size(ds_data))
    /\ pc' = "ds_failed"
    /\ error' = [kind |-> "AssertionError", stage |-> "downsample"]
    /\ UNCHANGED <<points, epsilon, cut_off, num_eigenpairs, normalize_kernel, use_cuda,
                   self_cut_off, distance_coo, distance_matrix, kernel_matrix,
                   eigenvalues, eigenvectors, stages, solver_calls, nm_vars, ds_vars>>

\* lines 48-51: the assertion holds
DsSample ==
    /\ pc = "ds_call"
    /\ ds_num_samples <= Size(ds_data)
    /\ \E choice \in random_choice(Size(ds_data), ds_num_samples) :
          /\ ds_choice' = choice
          /\ ds_indices' = downsample_indices(choice)
          /\ ds_result' = take(ds_data, downsample_indices(choice))
    /\ pc' = "ds_returned"
    /\ UNCHANGED <<ds_data, ds_num_samples, build_vars, nm_vars>>

NextDs ==
    \/ DsAssertFails
    \/ DsSample

SpecDs == InitDs /\ [][NextDs]_vars

\* ----------------------------------------------------------------- claims
RowSum(m, i) == np_sum(m.data, m.indptr[i], m.indptr[i + 1])

RowLen(m, i) == m.indptr[i + 1] - m.indptr[i]

Rows(m) == 0..(m.shape - 1)

Contains(seq, x) == \E i \in 1..Len(seq) : seq[i] = x

IsPrefix(a, b) == Len(a) <= Len(b) /\ \A i \in 1..Len(a) : a[i] = b[i]

NoDuplicates(seq) == \A i, j \in 1..Len(seq) : i # j => seq[i] # seq[j]

\* the radius the constructor is to use
ExpectedRadius == IF cut_off = None THEN 2 * epsilon ELSE cut_off

\* the backend the flag selects
Selected == IF use_cuda = TRUE THEN "gpu" ELSE "cpu"

\* C1: after a build with normalize_kernel=True that completes, every row of
\* kernel_matrix sums to 1 over its stored entries, up to the rounding of
\* the divisions (half a unit for each stored entry), and a row whose only
\* stored entry is the diagonal holds the single value 1.
C1_RowsSumToOne ==
    (pc = "done" /\ normalize_kernel = TRUE) =>
        /\ kernel_matrix.shape = Size(points)
        /\ \A i \in Rows(kernel_matrix) :
              /\ RowLen(kernel_matrix, i) >= 1
              /\ \A p \in RowSlots(kernel_matrix, i) : IsFiniteVal(kernel_matrix.data[p])
              /\ 2 * Abs(RowSum(kernel_matrix, i) - Scale) <= RowLen(kernel_matrix, i)
              /\ RowLen(kernel_matrix, i) = 1 =>
                    /\ kernel_matrix.indices[kernel_matrix.indptr[i]] = i
                    /\ kernel_matrix.data[kernel_matrix.indptr[i]] = Scale

\* a completed normalizing build with an isolated point and with a row of
\* several unequal entries
C1_Witness ==
    /\ pc = "done"
    /\ normalize_kernel = TRUE
    /\ \E i \in Rows(kernel_matrix) : RowLen(kernel_matrix, i) = 1
    /\ \E i \in Rows(kernel_matrix) :
          \E p, q \in RowSlots(kernel_matrix, i) :
              kernel_matrix.data[p] # kernel_matrix.data[q]

\* C2: the matrix returned by _compute_kernel_matrix stores exactly the
\* positions the distance graph stores, whatever the stored distances and
\* the kernel values are, and each stored value is the kernel of the
\* distance stored at the same position.
C2_SamePattern ==
    pc = "normalize" =>
        /\ Pattern(kernel_matrix) = Pattern(distance_matrix)
        /\ Pattern(kernel_matrix) =
              {<<i, j>> \in (DOMAIN points) \X (DOMAIN points) :
                  Abs(points[i] - points[j]) <= self_cut_off}
        /\ kernel_matrix.shape = distance_matrix.shape
        /\ kernel_matrix.indptr = distance_matrix.indptr
        /\ kernel_matrix.indices = distance_matrix.indices
        /\ DOMAIN kernel_matrix.data = DOMAIN distance_matrix.data
        /\ \A p \in DOMAIN kernel_matrix.data :
              /\ kernel_matrix.data[p] \in 0..Scale
              /\ distance_matrix.data[p] = 0 => kernel_matrix.data[p] = Scale
              /\ kernel_matrix.data[p] =
                    np_exp_neg(distance_matrix.data[p] * distance_matrix.data[p], 2 * epsilon)

\* a kernel matrix with a stored zero distance and a kernel value that
\* underflowed to 0
C2_Witness ==
    /\ pc = "normalize"
    /\ \E p \in DOMAIN distance_matrix.data : distance_matrix.data[p] = 0
    /\ \E p \in DOMAIN kernel_matrix.data :
          kernel_matrix.data[p] = 0 /\ distance_matrix.data[p] > 0

\* C3: make_stochastic_matrix does not return normally when a row of its
\* argument sums to exactly 0: it reports a NumericalFault instead, and it
\* leaves no non-finite value and no row that does not sum to 1.
C3_ZeroRowIsReported ==
    (\E i \in Rows(nm_input) : RowSum(nm_input, i) = 0) =>
        /\ pc # "nm_returned"
        /\ \A p \in DOMAIN nm_matrix.data : IsFiniteVal(nm_matrix.data[p])

\* C4: a supplied cut_off below epsilon is rejected: the radius query runs
\* only with a cut-off of at least epsilon, and a rejected call produces no
\* distance graph, kernel matrix or eigenpairs.
C4_CutOffBelowEpsilonRejected ==
    /\ Contains(stages, "distance") => self_cut_off >= epsilon
    /\ (cut_off # None /\ cut_off < epsilon) =>
          /\ distance_coo = NoCoo
          /\ kernel_matrix = NoMatrix
          /\ eigenvalues = << >>
          /\ pc \notin {"done"}

\* C5: a build with num_eigenpairs greater than the number of points never
\* completes and never sets the eigenpairs, and the solver stage, when the
\* build reaches it, fails with a ConfigurationError; a build that completes
\* holds exactly num_eigenpairs eigenvalues and eigenvectors, with
\* num_eigenpairs <= N.
C5_EigenpairCount ==
    /\ num_eigenpairs > Size(points) =>
          /\ pc # "done"
          /\ eigenvalues = << >>
          /\ eigenvectors = << >>
          /\ Contains(stages, "solver") =>
                (pc = "failed" /\ error.kind = "ConfigurationError")
    /\ pc = "done" =>
          /\ num_eigenpairs <= Size(points)
          /\ Len(eigenvalues) = num_eigenpairs
          /\ Len(eigenvectors) = num_eigenpairs
          /\ \A r \in 1..num_eigenpairs : eigenvectors[r] = Size(points)

\* a build that asked for more pairs than points and failed in the solver
C5_Witness ==
    /\ num_eigenpairs > Size(points)
    /\ Size(points) > 0
    /\ pc = "failed"
    /\ error.stage = "solver"
    /\ Len(solver_calls) = 1

\* the stages the claims name, in the order they were entered
NamedStages == SelectSeq(stages, LAMBDA st : st # "csr")

ExpectedStages ==
    IF normalize_kernel = TRUE
    THEN <<"index", "distance", "kernel", "normalize", "solver">>
    ELSE <<"index", "distance", "kernel", "solver">>

\* the kernel matrix before any normalization
RawKernel == compute_kernel_matrix(coo_tocsr(sparse_distance_matrix(points, self_cut_off)),
                                   epsilon)

\* C6: the stages are entered in the order index, distance graph, kernel
\* matrix, normalization, eigensolver, each at most once and each leaving
\* its whole output to the next; normalization is entered exactly
\* when normalize_kernel is true, and the eigensolver is called with the
\* normalized matrix in that case and with the unnormalized one otherwise.
C6_StageOrder ==
    /\ IsPrefix(NamedStages, ExpectedStages)
    /\ NoDuplicates(stages)
    /\ pc = "csr" => distance_coo = sparse_distance_matrix(points, self_cut_off)
    /\ pc = "kernel" => distance_matrix = coo_tocsr(distance_coo)
    /\ pc = "normalize" => kernel_matrix = compute_kernel_matrix(distance_matrix, epsilon)
    /\ pc = "solve" => (Contains(stages, "normalize") <=> normalize_kernel = TRUE)
    /\ Contains(stages, "solver") => (Contains(stages, "normalize") <=> normalize_kernel = TRUE)
    /\ \A c \in 1..Len(solver_calls) :
          solver_calls[c].matrix =
              IF normalize_kernel = TRUE THEN make_stochastic_matrix(RawKernel)
              ELSE RawKernel

\* a completed build whose solver got a normalized matrix that differs from
\* the unnormalized one
C6_Witness ==
    /\ pc = "done"
    /\ normalize_kernel = TRUE
    /\ NamedStages = ExpectedStages
    /\ solver_calls[1].matrix # RawKernel

FailedStateIsFinal ==
    pc = "failed" =>
        /\ error.kind # "none"
        /\ eigenvalues = << >>
        /\ eigenvectors = << >>
        /\ stages # << >>
        /\ stages[Len(stages)] = error.stage
        /\ NoDuplicates(stages)
        /\ Len(solver_calls) <= 1
        /\ (error.stage = "solver" /\ normalize_kernel = TRUE) => Contains(stages, "normalize")

\* C7: a stage that fails ends the build with that stage's error: the
\* failing stage is the last one entered, no stage ran twice, normalization
\* was not left out on the way to a failing solver, the eigenvalues and
\* eigenvectors are not set, and nothing changes afterwards.
C7_FailureAborts ==
    /\ [](FailedStateIsFinal /\ (error.kind # "none" => pc = "failed"))
    /\ [][pc = "failed" => UNCHANGED vars]_vars

\* a build that failed in the eigensolver after a normalization
C7_Witness ==
    /\ pc = "failed"
    /\ error.stage = "solver"
    /\ error.kind = "NumericalFault"
    /\ normalize_kernel = TRUE
    /\ kernel_matrix # NoMatrix

\* C8: only the backend the use_cuda flag selects is ever invoked, at most
\* once, and exactly once in a build that completes; a solver stage that
\* fails without having invoked a backend (the selected one is unavailable)
\* fails with a configuration error.
C8_SelectedBackendOnly ==
    /\ Len(solver_calls) <= 1
    /\ \A c \in 1..Len(solver_calls) : solver_calls[c].backend = Selected
    /\ pc = "done" => Len(solver_calls) = 1
    /\ (Contains(stages, "solver") /\ solver_calls = << >>) =>
          (pc = "failed" /\ error = [kind |-> "ConfigurationError", stage |-> "solver"])

\* a build whose selected accelerator backend was unavailable
C8_Witness ==
    /\ use_cuda = TRUE
    /\ pc = "failed"
    /\ error.stage = "solver"
    /\ solver_calls = << >>
    /\ num_eigenpairs <= Size(points)

\* C9: the radius of the neighbor query is 2*epsilon when cut_off is not
\* supplied and the supplied cut_off otherwise.
C9_RadiusUsed ==
    /\ pc # "start" => self_cut_off = ExpectedRadius
    /\ pc = "csr" =>
          /\ distance_coo = sparse_distance_matrix(points, ExpectedRadius)
          /\ \A i, j \in DOMAIN points :
                (\E e \in DOMAIN distance_coo.data :
                     distance_coo.row[e] = i /\ distance_coo.col[e] = j)
                <=> Abs(points[i] - points[j]) <= ExpectedRadius

\* a radius query under the default cut-off that stored a pair farther apart
\* than epsilon
C9_Witness ==
    /\ cut_off = None
    /\ pc = "csr"
    /\ \E e \in DOMAIN distance_coo.data : distance_coo.data[e] > epsilon

\* C10: every outcome of downsample(data, n) with n <= len(data) has n
\* elements, taken at n distinct indices of data in increasing order; a call
\* with n > len(data) fails and returns nothing.
C10_Downsample ==
    /\ pc = "ds_returned" =>
          /\ ds_num_samples <= Size(ds_data)
          /\ Size(ds_result) = ds_num_samples
          /\ Len(ds_indices) = ds_num_samples
          /\ \A i \in 1..Len(ds_indices) : ds_indices[i] \in DOMAIN ds_data
          /\ \A i, j \in 1..Len(ds_indices) : i < j => ds_indices[i] < ds_indices[j]
          /\ \A i \in 1..Len(ds_indices) : ds_result[i - 1] = ds_data[ds_indices[i]]
    /\ ds_num_samples > Size(ds_data) =>
          /\ pc # "ds_returned"
          /\ ds_result = EmptyArr
    /\ pc = "ds_failed" => (ds_num_samples > Size(ds_data) /\ ds_result = EmptyArr)

\* a sample of several elements whose draw was not in increasing order
C10_Witness ==
    /\ pc = "ds_returned"
    /\ ds_num_samples >= 2
    /\ ds_choice # ds_indices
    /\ \E i, j \in DOMAIN ds_result : ds_result[i] # ds_result[j]

====
